---- MODULE Spec2Model ----
(***************************************************************************)
(* Emotion API (src/main.py): the /start-session and /analyze-emotion      *)
(* handlers, the two tables they write (sessions, emotions) and the        *)
(* 30-day retention sweep that the scheduler fires.                        *)
(*                                                                         *)
(* Time is counted in days.  Each handler is a request handler of some     *)
(* instance of the application; all instances share the store.  Blocking   *)
(* calls (inference, commit, bulk delete) are the points where control can *)
(* pass to another handler, to the sweep or to the clock.                  *)
(*                                                                         *)
(* The two tables are independent (no handler reads both), so each is also *)
(* specified on its own with two concurrent handlers: SpecLog for the      *)
(* emotions table, SpecSessions for the sessions table.  FairSweep and     *)
(* FairSessions add the fairness that the scheduler and the server give.   *)
(***************************************************************************)
EXTENDS Integers, Sequences, FiniteSets, TLC

\* ---------------------------------------------------------------- bounds
MaxEntries == 3        \* /analyze-emotion requests admitted past decoding
MaxSessions == 2       \* /start-session requests admitted
MaxDrift == 1          \* one-unit clock steps before and after the window passes

\* ------------------------------------------------------ program constants
RetentionDays == 30    \* timedelta(days=30)

Handlers == {"h1", "h2"}
None == "None"
NoResp == [handler |-> "none", status |-> 0]

\* uuid.uuid4(): a draw from a finite identifier space
Uuid4 == {"u1", "u2"}

\* ------------------------------------------------------- image decoding
\* A base64 string is a sequence of chunks; "," is the separator that ends a
\* data-URL prefix.
ImageStrings ==
    { <<"JPGFACE">>,
      <<"data:image/jpeg;base64", ",", "JPGBLANK">>,
      <<"data:image/jpeg;base64", ",", "TEXT">>,
      <<"BADPAD">>,
      <<"data:image/jpeg;base64", ",">> }

RECURSIVE FirstComma(_, _)
FirstComma(s, i) ==
    IF i > Len(s) THEN 0
    ELSE IF s[i] = "," THEN i ELSE FirstComma(s, i + 1)

\* base64_str.split(",", 1): what follows the first comma, or the whole string
StripPrefix(s) ==
    IF FirstComma(s, 1) = 0 THEN s ELSE SubSeq(s, FirstComma(s, 1) + 1, Len(s))

\* base64.b64decode: raises on bad padding, otherwise the bytes
B64Raises(encoded) == \E i \in 1..Len(encoded) : encoded[i] = "BADPAD"

\* cv2.imdecode: an image for image bytes, None otherwise (an empty buffer
\* raises; both end in None)
ImDecode(bytes) ==
    IF bytes = <<"JPGFACE">> THEN "img_face"
    ELSE IF bytes = <<"JPGBLANK">> THEN "img_blank"
    ELSE None

decode_base64_image(s) ==
    IF B64Raises(StripPrefix(s)) THEN None ELSE ImDecode(StripPrefix(s))

\* `if img is None` in analyze_emotion
UndecodableAlways(img) == FALSE
Undecodable(img) == img = None

\* ------------------------------------------------------------ inference
\* An emotion distribution is a set of <<label, score>> pairs.
Distribution == {<<"happy", 90>>, <<"sad", 10>>}
EmptyDistribution == {}
NoFaceLabel == "Nenhum rosto detectado"

\* What DeepFace.analyze can return for an image (it can also raise).
Analyses(img) ==
    IF img = "img_face"
    THEN { [isList |-> TRUE,
            items |-> <<[dominant_emotion |-> "happy", emotion |-> Distribution]>>] }
    ELSE { [isList |-> TRUE, items |-> <<>>],
           [isList |-> TRUE, items |-> <<[region |-> "none"]>>],
           [isList |-> FALSE, items |-> <<>>] }

\* not analysis or not isinstance(analysis, list)
\*   or 'dominant_emotion' not in analysis[0]
NoFace(analysis) ==
    \/ analysis.items = <<>>
    \/ ~analysis.isList
    \/ "dominant_emotion" \notin DOMAIN analysis.items[1]

\* ---------------------------------------------------------------- state
VARIABLES
    now,              \* the wall clock, in days (UTC)
    sessions,         \* table "sessions": sequence of rows, in insertion order
    log,              \* table "emotions": set of rows
    nextId,           \* the serial sequence behind emotions.id
    pc,               \* per handler: idle | ss_commit | decode | infer | an_commit
    local,            \* per handler: the locals of the running handler
    response,         \* the HTTP response sent last, with the handler that sent it
    issued,           \* the session ids returned by /start-session so far
    scheduler,        \* running | stopped
    sweepPc,          \* idle | delete | close
    sweepDb,          \* the sweep holds an open database session
    thirty_days_ago,  \* the cutoff of the sweep in flight
    lastSweep,        \* what the last finished sweep logged: none | deleted | nothing | error
    num_deleted       \* the count the last sweep obtained

vars == <<now, sessions, log, nextId, pc, local, response, issued,
          scheduler, sweepPc, sweepDb, thirty_days_ago, lastSweep, num_deleted>>

NoLocal == [kind |-> "none"]

Init ==
    /\ now = 0
    /\ sessions = <<>>
    /\ log = {}
    /\ nextId = 1
    /\ pc = [p \in Handlers |-> "idle"]
    /\ local = [p \in Handlers |-> NoLocal]
    /\ response = NoResp
    /\ issued = {}
    /\ scheduler = "running"
    /\ sweepPc = "idle"
    /\ sweepDb = FALSE
    /\ thirty_days_ago = 0
    /\ lastSweep = "none"
    /\ num_deleted = 0

\* ---------------------------------------------------------------- clock
\* The clock moves by one unit, which stands for any lapse shorter than the
\* retention window, or by a whole window.  A whole window passes only while
\* nothing is in flight: no request and no sweep lasts that long.
ClockSteps == {1, RetentionDays}

\* the clock runs until one retention window and MaxDrift units have passed
Horizon == RetentionDays + MaxDrift

Quiescent == sweepPc = "idle" /\ \A p \in Handlers : pc[p] = "idle"

AdvanceClock ==
    /\ \E d \in ClockSteps :
          /\ now + d <= Horizon
          /\ IF d = 1 THEN now % RetentionDays < MaxDrift ELSE Quiescent
          /\ now' = now + d
    /\ UNCHANGED <<issued, sessions, log, nextId, pc, local, response,
                   scheduler, sweepPc, sweepDb, thirty_days_ago, lastSweep, num_deleted>>

\* ------------------------------------------------------- the store
\* sessions.session_uuid is the primary key: an insert of a key that is
\* already present fails at commit
PrimaryKeyIgnored(u, rows) == TRUE
PrimaryKeyFree(u, rows) == \A i \in 1..Len(rows) : rows[i].session_uuid # u

\* db.rollback(): the committed table stands, what the transaction had
\* flushed is discarded
RollbackKeepsFlushed(committed, flushed) == flushed
Rollback(committed, flushed) == committed

\* ------------------------------------------------------- /start-session
\* the requests arrive without an X-Forwarded-For header
Requests == { [xff |-> None, host |-> "10.0.0.7"] }

\* request.headers.get("X-Forwarded-For", request.client.host)
UserIp(request) == IF request.xff # None THEN request.xff ELSE request.host

InFlight(states) == Cardinality({q \in Handlers : pc[q] \in states})

\* lines 195-211: draw the uuid, read the address, build the row
StartSessionReceive(p) ==
    /\ pc[p] = "idle"
    /\ Len(sessions) + InFlight({"ss_commit"}) < MaxSessions
    /\ \E u \in Uuid4, request \in Requests :
          local' = [local EXCEPT ![p] =
                       [kind |-> "session",
                        row |-> [session_uuid |-> u,
                                 ip_address |-> UserIp(request),
                                 country |-> "Desconhecido",
                                 state |-> "Desconhecido",
                                 startedAt |-> now]]]
    /\ pc' = [pc EXCEPT ![p] = "ss_commit"]
    /\ UNCHANGED <<issued, now, sessions, log, nextId, response,
                   scheduler, sweepPc, sweepDb, thirty_days_ago, lastSweep, num_deleted>>

\* lines 212-216: db.add, db.commit, the response
StartSessionCommitOK(p) ==
    /\ pc[p] = "ss_commit"
    /\ PrimaryKeyFree(local[p].row.session_uuid, sessions)
    /\ sessions' = Append(sessions, local[p].row)
    /\ response' = [handler |-> p, status |-> 200, session_uuid |-> local[p].row.session_uuid]
    /\ issued' = issued \cup {local[p].row.session_uuid}
    /\ pc' = [pc EXCEPT ![p] = "idle"]
    /\ local' = [local EXCEPT ![p] = NoLocal]
    /\ UNCHANGED <<now, log, nextId,
                   scheduler, sweepPc, sweepDb, thirty_days_ago, lastSweep, num_deleted>>

\* lines 218-221: the commit raised (store unreachable, key already present)
StartSessionCommitFail(p) ==
    /\ pc[p] = "ss_commit"
    /\ sessions' = Rollback(sessions, Append(sessions, local[p].row))
    /\ response' = [handler |-> p, status |-> 500]
    /\ pc' = [pc EXCEPT ![p] = "idle"]
    /\ local' = [local EXCEPT ![p] = NoLocal]
    /\ UNCHANGED <<issued, now, log, nextId,
                   scheduler, sweepPc, sweepDb, thirty_days_ago, lastSweep, num_deleted>>

\* ------------------------------------------------------ /analyze-emotion
PayloadSessions == {"u1"}

\* the request arrives with its ImagePayload
AnalyzeReceive(p) ==
    /\ pc[p] = "idle"
    /\ (nextId - 1) + InFlight({"decode", "infer", "an_commit"}) < MaxEntries
    /\ \E s \in ImageStrings, sid \in PayloadSessions :
          local' = [local EXCEPT ![p] =
                       [kind |-> "payload", session_uuid |-> sid, image_base64 |-> s]]
    /\ pc' = [pc EXCEPT ![p] = "decode"]
    /\ UNCHANGED <<issued, now, sessions, log, nextId, response,
                   scheduler, sweepPc, sweepDb, thirty_days_ago, lastSweep, num_deleted>>

\* lines 231-234: decode, HTTP 400 when there is no image
AnalyzeDecode(p) ==
    /\ pc[p] = "decode"
    /\ LET img == decode_base64_image(local[p].image_base64) IN
         IF Undecodable(img)
         THEN /\ response' = [handler |-> p, status |-> 400]
              /\ pc' = [pc EXCEPT ![p] = "idle"]
              /\ local' = [local EXCEPT ![p] = NoLocal]
         ELSE /\ response' = response
              /\ pc' = [pc EXCEPT ![p] = "infer"]
              /\ local' = [local EXCEPT ![p] =
                              [kind |-> "image",
                               session_uuid |-> local[p].session_uuid,
                               img |-> img]]
    /\ UNCHANGED <<issued, now, sessions, log, nextId,
                   scheduler, sweepPc, sweepDb, thirty_days_ago, lastSweep, num_deleted>>

\* lines 237-261: DeepFace.analyze returns; no face ends the request at line
\* 249, a face builds the EmotionLog row with the handler's clock reading
AnalyzeInfer(p) ==
    /\ pc[p] = "infer"
    /\ \E analysis \in Analyses(local[p].img) :
          IF NoFace(analysis)
          THEN /\ response' = [handler |-> p, status |-> 200,
                               dominant_emotion |-> NoFaceLabel,
                               emotions |-> EmptyDistribution]
               /\ pc' = [pc EXCEPT ![p] = "idle"]
               /\ local' = [local EXCEPT ![p] = NoLocal]
          ELSE /\ response' = response
               /\ pc' = [pc EXCEPT ![p] = "an_commit"]
               /\ local' = [local EXCEPT ![p] =
                               [kind |-> "row",
                                row |-> [session_uuid |-> local[p].session_uuid,
                                         dominant_emotion |-> analysis.items[1].dominant_emotion,
                                         emotions |-> analysis.items[1].emotion,
                                         createdAt |-> now]]]
    /\ UNCHANGED <<issued, now, sessions, log, nextId,
                   scheduler, sweepPc, sweepDb, thirty_days_ago, lastSweep, num_deleted>>

\* lines 271-274: DeepFace.analyze raised
AnalyzeInferRaise(p) ==
    /\ pc[p] = "infer"
    /\ log' = Rollback(log, log)
    /\ response' = [handler |-> p, status |-> 500]
    /\ pc' = [pc EXCEPT ![p] = "idle"]
    /\ local' = [local EXCEPT ![p] = NoLocal]
    /\ UNCHANGED <<issued, now, sessions, nextId,
                   scheduler, sweepPc, sweepDb, thirty_days_ago, lastSweep, num_deleted>>

\* the row as the store inserts it: the id comes from the serial sequence
Inserted(row, id) ==
    [id |-> id,
     session_uuid |-> row.session_uuid,
     dominant_emotion |-> row.dominant_emotion,
     emotions |-> row.emotions,
     createdAt |-> row.createdAt]

\* lines 262-269: db.add, db.commit, the response
AnalyzeCommitOK(p) ==
    /\ pc[p] = "an_commit"
    /\ log' = log \cup {Inserted(local[p].row, nextId)}
    /\ nextId' = nextId + 1
    /\ response' = [handler |-> p, status |-> 200,
                    dominant_emotion |-> local[p].row.dominant_emotion,
                    emotions |-> local[p].row.emotions]
    /\ pc' = [pc EXCEPT ![p] = "idle"]
    /\ local' = [local EXCEPT ![p] = NoLocal]
    /\ UNCHANGED <<issued, now, sessions,
                   scheduler, sweepPc, sweepDb, thirty_days_ago, lastSweep, num_deleted>>

\* lines 271-274: the commit raised
AnalyzeCommitFail(p) ==
    /\ pc[p] = "an_commit"
    /\ log' = Rollback(log, log \cup {Inserted(local[p].row, nextId)})
    /\ response' = [handler |-> p, status |-> 500]
    /\ pc' = [pc EXCEPT ![p] = "idle"]
    /\ local' = [local EXCEPT ![p] = NoLocal]
    /\ UNCHANGED <<issued, now, sessions, nextId,
                   scheduler, sweepPc, sweepDb, thirty_days_ago, lastSweep, num_deleted>>

\* ------------------------------------------------------ retention sweep
\* datetime.now(utc) - timedelta(days=30)
CutoffAhead(t) == t + RetentionDays
Cutoff(t) == t - RetentionDays

\* EmotionLog.createdAt < thirty_days_ago
IsOldInclusive(e, cutoff) == e.createdAt <= cutoff
IsOldReversed(e, cutoff) == e.createdAt > cutoff
IsOld(e, cutoff) == e.createdAt < cutoff

Matched(rows, cutoff) == {e \in rows : IsOld(e, cutoff)}

\* the interval job fires only while the scheduler runs, one instance at a time
TickAfterShutdown == sweepPc = "idle"
TickEnabled == scheduler = "running" /\ sweepPc = "idle"

\* db.close() in the finally clause
SessionLeftOpen == TRUE
SessionClosed == FALSE

\* lines 70-74: the job starts, opens its session and computes the cutoff
SweepTick ==
    /\ TickEnabled
    /\ sweepPc' = "delete"
    /\ sweepDb' = TRUE
    /\ thirty_days_ago' = Cutoff(now)
    /\ num_deleted' = 0
    /\ UNCHANGED <<issued, now, sessions, log, nextId, pc, local, response,
                   scheduler, lastSweep>>

\* lines 77-84: the bulk delete and its commit succeed
SweepDeleteOK ==
    /\ sweepPc = "delete"
    /\ log' = log \ Matched(log, thirty_days_ago)
    /\ num_deleted' = Cardinality(Matched(log, thirty_days_ago))
    /\ lastSweep' = IF num_deleted' > 0 THEN "deleted" ELSE "nothing"
    /\ sweepPc' = "close"
    /\ UNCHANGED <<issued, now, sessions, nextId, pc, local, response,
                   scheduler, sweepDb, thirty_days_ago>>

\* lines 85-87: the delete or the commit raised
SweepDeleteFail ==
    /\ sweepPc = "delete"
    /\ log' = Rollback(log, log \ Matched(log, thirty_days_ago))
    /\ lastSweep' = "error"
    /\ sweepPc' = "close"
    /\ UNCHANGED <<issued, now, sessions, nextId, pc, local, response,
                   scheduler, sweepDb, thirty_days_ago, num_deleted>>

\* lines 88-89: finally, and the job returns
SweepClose ==
    /\ sweepPc = "close"
    /\ sweepDb' = SessionClosed
    /\ sweepPc' = "idle"
    /\ thirty_days_ago' = 0
    /\ num_deleted' = 0
    /\ UNCHANGED <<issued, now, sessions, log, nextId, pc, local, response,
                   scheduler, lastSweep>>

\* lines 117-120: scheduler.shutdown(wait=False)
Shutdown ==
    /\ scheduler = "running"
    /\ scheduler' = "stopped"
    /\ UNCHANGED <<issued, now, sessions, log, nextId, pc, local, response,
                   sweepPc, sweepDb, thirty_days_ago, lastSweep, num_deleted>>

\* ------------------------------------------------------- specification
SessionStep(p) ==
    \/ StartSessionReceive(p)
    \/ StartSessionCommitOK(p)
    \/ StartSessionCommitFail(p)

AnalyzeStep(p) ==
    \/ AnalyzeReceive(p)
    \/ AnalyzeDecode(p)
    \/ AnalyzeInfer(p)
    \/ AnalyzeInferRaise(p)
    \/ AnalyzeCommitOK(p)
    \/ AnalyzeCommitFail(p)

SweepStep ==
    \/ SweepTick
    \/ SweepDeleteOK
    \/ SweepDeleteFail
    \/ SweepClose

\* The service while it runs: a handler that serves both endpoints, the sweep
\* and the clock.
Next ==
    \/ AdvanceClock
    \/ \E p \in {"h1"} : SessionStep(p) \/ AnalyzeStep(p)
    \/ SweepStep

Spec == Init /\ [][Next]_vars

\* The emotion log with concurrent /analyze-emotion handlers.  No action on
\* the emotions table reads the sessions table, nor the other way round.
NextLog ==
    \/ AdvanceClock
    \/ \E p \in Handlers : AnalyzeStep(p)
    \/ SweepStep

SpecLog == Init /\ [][NextLog]_vars

\* The sessions table with concurrent /start-session handlers.
NextSessions ==
    \/ AdvanceClock
    \/ \E p \in Handlers : SessionStep(p)
    \/ SweepStep
    \/ Shutdown

SpecSessions == Init /\ [][NextSessions]_vars

\* Scheduling: a started sweep runs to its end (the job's thread keeps
\* running whatever the scheduler does), the interval trigger keeps firing
\* while the scheduler runs, and the store is reachable again and again.
SweepFairness ==
    /\ WF_vars(SweepTick)
    /\ WF_vars(SweepDeleteOK \/ SweepDeleteFail)
    /\ SF_vars(SweepDeleteOK)
    /\ WF_vars(SweepClose)

NextSweep ==
    \/ AdvanceClock
    \/ \E p \in {"h2"} : AnalyzeStep(p)
    \/ SweepStep
    \/ Shutdown

FairSweep == Init /\ [][NextSweep]_vars /\ SweepFairness

\* /start-session handlers beside the sweep, at one instant of the clock.
\* A handler that was started runs to its response.
NextContain ==
    \/ \E p \in Handlers : SessionStep(p)
    \/ SweepStep
    \/ Shutdown

FairSessions ==
    /\ Init /\ [][NextContain]_vars
    /\ SweepFairness
    /\ \A p \in Handlers : WF_vars(SessionStep(p))

\* ================================================================ claims

\* C1: a request whose image decodes but in which no face is detected is
\* answered with the no-face label and an empty distribution, and exactly one
\* emotions row with that empty distribution and the request's session id is
\* added.
C1_NoFaceIsLogged ==
    [][\A p \in Handlers :
          (pc[p] = "infer" /\ pc'[p] = "idle"
             /\ response'.handler = p /\ response'.status = 200)
          => /\ response'.dominant_emotion = NoFaceLabel
             /\ response'.emotions = EmptyDistribution
             /\ Cardinality(log' \ log) = 1
             /\ \E e \in log' \ log :
                   /\ e.emotions = EmptyDistribution
                   /\ e.session_uuid = local[p].session_uuid]_vars

\* C2: a request whose payload cannot be decoded ends with HTTP 400, the
\* inference is not invoked for it, and the emotions table is left as it was.
C2_UndecodableRejected ==
    [][/\ \A p \in Handlers :
            (pc[p] = "decode" /\ pc'[p] # "decode"
               /\ decode_base64_image(local[p].image_base64) = None)
            => /\ response' = [handler |-> p, status |-> 400]
               /\ pc'[p] = "idle"
               /\ log' = log
       /\ \A p \in Handlers : pc'[p] = "infer" => local'[p].img # None]_vars

C2_Witness ==
    /\ response.status = 400
    /\ log # {}

\* C3: a row leaves the emotions table only in the delete step of a sweep and
\* only when its createdAt is strictly earlier than that sweep's cutoff; a row
\* whose createdAt equals the cutoff stays.
C3_RecentEntriesSurvive ==
    [][\A e \in log :
          e \notin log' => (sweepPc = "delete" /\ e.createdAt < thirty_days_ago)]_vars

C3_Witness ==
    /\ sweepPc = "close"
    /\ lastSweep = "deleted"
    /\ \E e \in log : e.createdAt = thirty_days_ago
    /\ \E p \in Handlers : pc[p] = "an_commit"

C10_CreatedAtFollowsId ==
    \A a \in log : \A b \in log : a.id < b.id => a.createdAt <= b.createdAt

\* C5: an operation that ends in failure leaves the tables as they were: a
\* handler that answers HTTP 500 changes neither table in that step, a sweep
\* that fails removes nothing, and a row is added to either table only in the
\* step in which its handler answers HTTP 200.
C5_FailureLeavesStoreUnchanged ==
    [][/\ \A p \in Handlers :
            (pc[p] # "idle" /\ pc'[p] = "idle"
               /\ response'.handler = p /\ response'.status = 500)
            => (sessions' = sessions /\ log' = log)
       /\ (sweepPc = "delete" /\ sweepPc' = "close" /\ lastSweep' = "error")
            => log' = log
       /\ (sessions' # sessions \/ ~(log' \subseteq log))
            => /\ response'.status = 200
               /\ pc[response'.handler] \in {"ss_commit", "an_commit"}
               /\ pc'[response'.handler] = "idle"]_vars

C5_Witness ==
    /\ response.status = 500
    /\ sessions # <<>>
    /\ log # {}
    /\ lastSweep = "error"
    /\ \E e \in log : e.createdAt < now - RetentionDays

\* C6: a sweep that fails changes nothing outside the sweep, goes on to release
\* its database session and returns; the scheduler keeps running, and every
\* /start-session request in flight, before or after the failure, completes.
C6_SweepFailureContained ==
    /\ [][(sweepPc = "delete" /\ sweepPc' = "close" /\ lastSweep' = "error")
             => (scheduler' = scheduler /\ pc' = pc /\ local' = local
                   /\ sessions' = sessions /\ response' = response)]_vars
    /\ [](sweepPc = "idle" => ~sweepDb)
    /\ (sweepPc = "close" /\ lastSweep = "error") ~> (sweepPc = "idle" /\ ~sweepDb)
    /\ \A p \in Handlers : (pc[p] = "ss_commit") ~> (pc[p] = "idle")

C6_Witness ==
    /\ lastSweep = "error"
    /\ sweepPc = "close"
    /\ scheduler = "running"
    /\ \E p \in Handlers : pc[p] = "ss_commit"

\* C7: a /start-session call that succeeds returns an id that no earlier call
\* returned and adds exactly one sessions row, which carries that id; no two
\* rows share an id.
C7_SessionIdsUnique ==
    /\ [][\A p \in Handlers :
             (pc[p] = "ss_commit" /\ pc'[p] = "idle"
                /\ response'.handler = p /\ response'.status = 200)
             => /\ response'.session_uuid \notin issued
                /\ Len(sessions') = Len(sessions) + 1
                /\ SubSeq(sessions', 1, Len(sessions)) = sessions
                /\ sessions'[Len(sessions')].session_uuid = response'.session_uuid]_vars
    /\ [](\A i \in 1..Len(sessions) : \A j \in 1..Len(sessions) :
             i # j => sessions[i].session_uuid # sessions[j].session_uuid)

C7_Witness ==
    /\ Len(sessions) = 2
    /\ response.status = 200
    /\ response.session_uuid = sessions[2].session_uuid
    /\ issued = Uuid4

\* C8: the sweeper is idle at startup; it leaves idle only on a tick, and a tick
\* fires only while the scheduler runs; a sweep in flight goes on to its end and
\* back to idle whatever its outcome and whatever the scheduler's state; the
\* scheduler stops only in the shutdown step, never in a step of the sweep, and
\* that step neither waits for the sweep nor touches it.
C8_SweeperLifecycle ==
    /\ sweepPc = "idle" /\ scheduler = "running"
    /\ [][/\ (sweepPc = "idle" /\ sweepPc' # "idle")
               => (scheduler = "running" /\ sweepPc' = "delete")
          /\ sweepPc = "delete" => sweepPc' \in {"delete", "close"}
          /\ sweepPc = "close" => sweepPc' \in {"close", "idle"}
          /\ scheduler' # scheduler
               => /\ scheduler = "running" /\ scheduler' = "stopped"
                  /\ sweepPc' = sweepPc /\ sweepDb' = sweepDb
                  /\ lastSweep' = lastSweep /\ log' = log
                  /\ thirty_days_ago' = thirty_days_ago]_vars
    /\ (sweepPc # "idle") ~> (sweepPc = "idle")

C8_Witness ==
    /\ scheduler = "stopped"
    /\ sweepPc = "delete"
    /\ \E e \in log : e.createdAt < thirty_days_ago

\* C9: a sweep that fails goes straight to its end without a second attempt;
\* every sweep that succeeds, the one after a failed sweep included, leaves no
\* row older than its cutoff; and a row older than the retention window is
\* eventually removed unless the scheduler is shut down.
C9_FailedSweepRetried ==
    /\ [][/\ (sweepPc = "delete" /\ lastSweep' = "error" /\ sweepPc' # "delete")
               => (sweepPc' = "close" /\ log' = log)
          /\ sweepPc = "close" => sweepPc' \in {"close", "idle"}
          /\ (sweepPc = "delete" /\ sweepPc' = "close"
                /\ lastSweep' \in {"deleted", "nothing"})
               => \A e \in log' : e.createdAt >= thirty_days_ago']_vars
    /\ \A i \in 1..MaxEntries :
          (\E e \in log : e.id = i /\ e.createdAt < now - RetentionDays)
             ~> (scheduler = "stopped" \/ ~(\E e \in log : e.id = i))

\* a failed sweep is being retried and overdue rows are waiting
C9_Witness ==
    /\ sweepPc = "delete"
    /\ lastSweep = "error"
    /\ \E e \in log : e.createdAt < thirty_days_ago

====
